---- MODULE Spec2Model ----
(***************************************************************************)
(* so_vits_svc_fork: the GUI event loop of gui.py (main, lines 500-662),   *)
(* the pebble ProcessPool(max_workers=1) it schedules tasks on, and the    *)
(* realtime worker the pool runs.                                          *)
(*                                                                         *)
(* The GUI holds one handle, `future`.  start_vc cancels the handle's task *)
(* and schedules a new realtime task; stop_vc cancels and clears it; every *)
(* loop iteration ends by polling the handle (future.done()).  The worker  *)
(* gets only the keyword arguments of gui.py:599-635: no cancellation      *)
(* token is among them, so a cancel reaches a running worker only through  *)
(* the pool, which stops the worker process (pebble's ProcessFuture.cancel)*)
(* at whatever point the worker happens to be.                             *)
(*                                                                         *)
(* inference_main.realtime itself is not among the sources; its phases     *)
(* (loading, between chunks, inference, device write) follow the           *)
(* streaming controller of the specification, section 4.4.                 *)
(***************************************************************************)
EXTENDS Integers, Sequences, FiniteSets

\* ------------------------------------------------------------------ bounds

\* The number of tasks ever handed to pool.schedule in one run.
MaxTasks == 3

\* A pool of two workers.
TwoWorkers == 1 + 1

\* ProcessPool(max_workers=1)
max_workers == 1

\* Positions of the transpose slider that are told apart (semitones).
Transposes == {0, 12}

\* The state of the configuration at a start_vc: valid; a model/config path
\* that does not exist; no device selected in a combo (widget.current() is
\* -1); no device at all (the index lists are empty).
Cfgs == {"ok", "bad_path", "no_selection", "no_devices"}

VARIABLES
    pc,                 \* "startup": main before the loop; "loop": in the
                        \* while loop; "joining": the with
                        \* block is being left (pool.close(), pool.join());
                        \* "exited": main has returned
    crashed,            \* an exception left the while loop
    future,             \* the GUI's handle: a task id, 0 for None
    tasks,              \* the tasks scheduled so far, by id: the state of
                        \* each task's ProcessFuture and of its worker
    transposeDisabled,  \* window["transpose"] is disabled and hidden
    slider,             \* the value the transpose slider holds
    emittedAuto,        \* the transpose values passed to infer and to
                        \* realtime together with auto_predict_f0=True
    reported,           \* the tasks the poll logged an error for
    startup,            \* main before the loop: the attempts made at
                        \* ensuring the HuBERT model, and whether the window
                        \* and the pool exist
    call                \* a call of one of the functions outside the GUI
                        \* loop: its name, arguments, position and result

\* The variables of the GUI loop, the pool and the worker.
guiVars ==
    <<pc, crashed, future, tasks, transposeDisabled, slider, emittedAuto,
      reported>>

vars == <<guiVars, startup, call>>

TaskIds == 1..Len(tasks)

\* ------------------------------------------------------- the pool's futures

\* pool.schedule(fn, ...): a new pending task at the end of the queue.
NewTask(kind, cfg) ==
    [kind |-> kind, st |-> "pending", proc |-> "none", cfg |-> cfg]

schedule(T, kind, cfg) == Append(T, NewTask(kind, cfg))

\* ProcessFuture.cancel(): no effect on a finished task; else the future is
\* cancelled at once (the worker process, if any, is stopped later by the
\* pool: Terminate).
cancel(T, f) ==
    IF T[f].st \in {"pending", "running"}
    THEN [T EXCEPT ![f].st = "cancelled"]
    ELSE T

\* ProcessFuture.done(): finished (result or exception) or cancelled.
done(T, f) == T[f].st \in {"finished", "failed", "cancelled"}

\* ------------------------------------------------------------ GUI helpers

\* Each loop step takes what window.read returned: auto, the
\* auto_predict_f0 checkbox, and tr, the position the user last gave the
\* transpose slider.  A disabled slider cannot be moved, so it keeps its
\* value.
ReadTranspose(tr) == IF transposeDisabled THEN slider ELSE tr

\* gui.py:594-596: if future: future.cancel()
CancelPreviousSkip(T, f) == T

CancelPrevious(T, f) == IF f # 0 THEN cancel(T, f) ELSE T

\* gui.py:638-639: if future: future.cancel()
StopCancelSkip(T, f) == T

StopCancel(T, f) == IF f # 0 THEN cancel(T, f) ELSE T

\* gui.py:640: future = None
StopHandleKeep(f) == f

StopHandle(f) == 0

\* gui.py:653-659: the poll at the end of an iteration.
PollFires(T, f) == f # 0 /\ done(T, f)

PollFuture(T, f) == IF PollFires(T, f) THEN 0 ELSE f

PollReported(T, f, R) == IF PollFires(T, f) THEN R \cup {f} ELSE R

\* gui.py:520-523 and window.read: the widget follows the checkbox.
Widgets(auto, tr) ==
    /\ slider' = ReadTranspose(tr)
    /\ transposeDisabled' = auto

\* The transpose emitted when it is left out under auto_predict_f0.
EmitNeutral(auto, tr) == IF auto THEN emittedAuto \cup {0} ELSE emittedAuto

\* transpose=values["transpose"], auto_predict_f0=values["auto_predict_f0"]
\* (gui.py:561-562, 608-609): the value is passed whatever the checkbox says.
Emit(auto, tr) ==
    IF auto THEN emittedAuto \cup {ReadTranspose(tr)} ELSE emittedAuto

\* The end of an iteration that changed the tasks to T and the handle to f.
EndIteration(T, f) ==
    /\ tasks' = T
    /\ future' = PollFuture(T, f)
    /\ reported' = PollReported(T, f, reported)

\* --------------------------------------------------------- GUI loop steps

\* A timeout, or an event that touches neither the pool nor the handle
\* (presets, refresh_devices, *_path, onnx_export).
OtherEvent(auto, tr) ==
    /\ UNCHANGED <<startup, call>>
    /\ pc = "loop"
    /\ Widgets(auto, tr)
    /\ EndIteration(tasks, future)
    /\ UNCHANGED <<pc, crashed, emittedAuto>>

\* gui.py:539-584.  A missing input file skips the rest of the iteration,
\* the poll included (continue).  infer runs in the UI thread; play says
\* whether it returned (it may raise: logged) with auto_play ticked.
Infer(auto, tr, input_exists, play) ==
    /\ UNCHANGED <<startup, call>>
    /\ pc = "loop"
    /\ Widgets(auto, tr)
    /\ IF ~input_exists
       THEN UNCHANGED <<tasks, future, reported, emittedAuto>>
       ELSE /\ emittedAuto' = Emit(auto, tr)
            /\ IF play
               THEN /\ Len(tasks) < MaxTasks
                    /\ EndIteration(schedule(tasks, "play", "ok"), future)
               ELSE EndIteration(tasks, future)
    /\ UNCHANGED <<pc, crashed>>

\* gui.py:585-587
PlayInput(auto, tr, input_exists) ==
    /\ UNCHANGED <<startup, call>>
    /\ pc = "loop"
    /\ Widgets(auto, tr)
    /\ IF input_exists
       THEN /\ Len(tasks) < MaxTasks
            /\ EndIteration(schedule(tasks, "play", "ok"), future)
       ELSE EndIteration(tasks, future)
    /\ UNCHANGED <<pc, crashed, emittedAuto>>

\* gui.py:588-636.  The previous task is cancelled first; then the keyword
\* arguments are built: with empty device lists indices[-1] raises
\* IndexError, which leaves the loop; with no selection indices[-1] is the
\* last device.  Nothing checks the paths.
StartVc(auto, tr, cfg) ==
    /\ UNCHANGED <<startup, call>>
    /\ pc = "loop"
    /\ Widgets(auto, tr)
    /\ IF cfg = "no_devices"
       THEN /\ tasks' = CancelPrevious(tasks, future)
            /\ pc' = "joining"
            /\ crashed' = TRUE
            /\ UNCHANGED <<future, reported, emittedAuto>>
       ELSE /\ Len(tasks) < MaxTasks
            /\ emittedAuto' = Emit(auto, tr)
            /\ EndIteration(
                   schedule(CancelPrevious(tasks, future), "realtime", cfg),
                   Len(tasks) + 1)
            /\ UNCHANGED <<pc, crashed>>

\* gui.py:637-640
StopVc(auto, tr) ==
    /\ UNCHANGED <<startup, call>>
    /\ pc = "loop"
    /\ Widgets(auto, tr)
    /\ IF future # 0
       THEN EndIteration(StopCancel(tasks, future), StopHandle(future))
       ELSE EndIteration(tasks, future)
    /\ UNCHANGED <<pc, crashed, emittedAuto>>

\* gui.py:504-505, 660-661: the window is closed.
Close ==
    /\ UNCHANGED <<startup, call>>
    /\ pc = "loop"
    /\ pc' = "joining"
    /\ tasks' = IF future # 0 THEN cancel(tasks, future) ELSE tasks
    /\ UNCHANGED <<crashed, future, transposeDisabled, slider, emittedAuto,
                   reported>>

\* ------------------------------------------------ the pool and its workers

OnWorker(i) == tasks[i].proc # "none"

Busy == Cardinality({i \in TaskIds : OnWorker(i)})

\* The oldest task that is still pending.
NextPending(i) ==
    /\ tasks[i].st = "pending"
    /\ \A j \in 1..(i - 1) : tasks[j].st # "pending"

\* A free worker takes the oldest pending task.
Dispatch(i) ==
    /\ UNCHANGED <<startup, call>>
    /\ i \in TaskIds
    /\ NextPending(i)
    /\ Busy < max_workers
    /\ tasks' = [tasks EXCEPT
                   ![i].st = "running",
                   ![i].proc = IF tasks[i].kind = "play" THEN "playing"
                               ELSE "loading"]
    /\ UNCHANGED <<pc, crashed, future, transposeDisabled, slider, emittedAuto,
                   reported>>

\* The pool stops the worker process of a cancelled task, wherever it is:
\* loading, between two chunks or inside one.
Terminate(i) ==
    /\ UNCHANGED <<startup, call>>
    /\ i \in TaskIds
    /\ tasks[i].st = "cancelled"
    /\ OnWorker(i)
    /\ tasks' = [tasks EXCEPT ![i].proc = "none"]
    /\ UNCHANGED <<pc, crashed, future, transposeDisabled, slider, emittedAuto,
                   reported>>

\* The worker's function ends: the future takes the outcome unless it was
\* cancelled meanwhile.
Ends(i, outcome) ==
    [tasks EXCEPT
       ![i].proc = "none",
       ![i].st = IF tasks[i].st = "running" THEN outcome ELSE tasks[i].st]

WorkerStep(i, from, to) ==
    /\ UNCHANGED <<startup, call>>
    /\ i \in TaskIds
    /\ tasks[i].proc = from
    /\ tasks' = [tasks EXCEPT ![i].proc = to]
    /\ UNCHANGED <<pc, crashed, future, transposeDisabled, slider, emittedAuto,
                   reported>>

WorkerEnd(i, from, outcome) ==
    /\ UNCHANGED <<startup, call>>
    /\ i \in TaskIds
    /\ tasks[i].proc = from
    /\ tasks' = Ends(i, outcome)
    /\ UNCHANGED <<pc, crashed, future, transposeDisabled, slider, emittedAuto,
                   reported>>

\* play_audio (gui.py:22-26) returns once sd.play has started the playback.
PlayDone(i) == WorkerEnd(i, "playing", "finished")

\* realtime: the model is loaded and the devices are opened ...
LoadOk(i) ==
    /\ i \in TaskIds
    /\ tasks[i].cfg # "bad_path"
    /\ WorkerStep(i, "loading", "between")

\* ... or loading fails (a path that does not exist, a device that cannot
\* be opened).
LoadFail(i) == WorkerEnd(i, "loading", "failed")

\* realtime: a chunk is taken in; inference on it and the write of its
\* output to the device are in flight ...
ChunkIn(i) == WorkerStep(i, "between", "chunk")

\* ... until the output is written,
ChunkOut(i) == WorkerStep(i, "chunk", "between")

\* or inference or the device raises.
ChunkFail(i) == WorkerEnd(i, "chunk", "failed")

\* pool.join() returns when no task is left; main returns.
Exit ==
    /\ UNCHANGED <<startup, call>>
    /\ pc = "joining"
    /\ \A i \in TaskIds : tasks[i].st # "pending" /\ ~OnWorker(i)
    /\ pc' = "exited"
    /\ future' = 0
    /\ UNCHANGED <<crashed, tasks, transposeDisabled, slider, emittedAuto,
                   reported>>

\* ------------------------------------------------------- the specification

\* No function outside the loop is being called.
NoCall == [op |-> "none"]

\* The order in which main tries the progress bars (gui.py:88, 93, 97).
Bars == <<"tqdm_tk", "default", "disabled">>

\* main has reached its loop: the first attempt at the model succeeded, the
\* window and the pool were created.
Started ==
    [tried |-> <<[bar |-> Bars[1], ok |-> TRUE]>>, window |-> TRUE,
     pool |-> TRUE]

\* The loop's variables when the loop is entered.
GuiInit ==
    /\ pc = "loop"
    /\ crashed = FALSE
    /\ future = 0
    /\ tasks = <<>>
    /\ transposeDisabled = FALSE
    /\ slider \in Transposes
    /\ emittedAuto = {}
    /\ reported = {}

Init ==
    /\ GuiInit
    /\ startup = Started
    /\ call = NoCall

\* One iteration of the while loop, the checkbox and the slider read from
\* the sets A and R.
Gui(A, R) ==
    \/ \E auto \in A, tr \in R : OtherEvent(auto, tr)
    \/ \E auto \in A, tr \in R, input_exists \in BOOLEAN, play \in BOOLEAN :
          Infer(auto, tr, input_exists, play)
    \/ \E auto \in A, tr \in R, input_exists \in BOOLEAN :
          PlayInput(auto, tr, input_exists)
    \/ \E auto \in A, tr \in R, cfg \in Cfgs : StartVc(auto, tr, cfg)
    \/ \E auto \in A, tr \in R : StopVc(auto, tr)
    \/ Close

Pool ==
    \/ \E i \in 1..MaxTasks : Dispatch(i)
    \/ \E i \in 1..MaxTasks : Terminate(i)
    \/ \E i \in 1..MaxTasks : PlayDone(i)
    \/ \E i \in 1..MaxTasks : LoadOk(i)
    \/ \E i \in 1..MaxTasks : LoadFail(i)
    \/ \E i \in 1..MaxTasks : ChunkIn(i)
    \/ \E i \in 1..MaxTasks : ChunkOut(i)
    \/ \E i \in 1..MaxTasks : ChunkFail(i)
    \/ Exit

Next == Gui(BOOLEAN, Transposes) \/ Pool

\* The GUI, the pool and the worker, with every input.
Spec == Init /\ [][Next]_vars

\* The GUI loop alone, with every input: what it emits to infer and to
\* realtime, and what it does to the transpose slider.
GuiNext == Gui(BOOLEAN, Transposes)

GuiSpec == Init /\ [][GuiNext]_vars

\* The GUI, the pool and the worker, the checkbox left unticked and the
\* slider left alone: the handle, the tasks and the worker read neither.
SessionInit == Init /\ slider = 0

SessionNext == Gui({FALSE}, {0}) \/ Pool

SessionSpec == SessionInit /\ [][SessionNext]_vars

\* Fairness: the pool's manager thread and its worker process run on
\* their own, whatever the GUI does: a cancelled task's worker is stopped, a
\* pending task is handed to a free worker, play_audio returns, and
\* pool.join() returns once no task is left.
FairSessionSpec ==
    /\ SessionSpec
    /\ WF_vars(\E i \in 1..MaxTasks : Terminate(i))
    /\ WF_vars(\E i \in 1..MaxTasks : Dispatch(i))
    /\ WF_vars(\E i \in 1..MaxTasks : PlayDone(i))
    /\ WF_vars(Exit)

\* ------------------------------------------------------------- the claims

IsRealtime(i) == tasks[i].kind = "realtime"

\* A realtime session: a realtime task that is pending or running in the
\* pool and not cancelled.
Active(i) == IsRealtime(i) /\ tasks[i].st \in {"pending", "running"}

\* The worker of task i has the audio devices open.
HoldsDevices(i) == IsRealtime(i) /\ tasks[i].proc \in {"between", "chunk"}

\* C1: in every reachable state at most one realtime session exists.
C1_AtMostOneSession == Cardinality({i \in TaskIds : Active(i)}) <= 1

\* A restart has happened: a cancelled session and the one that replaced it.
C1_Witness ==
    \E i, j \in TaskIds :
        /\ i < j
        /\ IsRealtime(i) /\ tasks[i].st = "cancelled"
        /\ Active(j)

\* C2: while the worker of one session has the devices, no worker of any
\* other session is alive: the worker of the cancelled session is gone
\* (and with it its hold on the devices) before the next one acquires them.
C2_ReleaseBeforeAcquire ==
    \A i, j \in TaskIds :
        (i # j /\ IsRealtime(i) /\ HoldsDevices(j)) => ~OnWorker(i)

\* start_vc came while the previous session had the devices: the new session
\* waits in the pool.
C2_Witness ==
    \E i, j \in TaskIds :
        /\ i < j
        /\ tasks[i].st = "cancelled" /\ HoldsDevices(i)
        /\ IsRealtime(j) /\ tasks[j].st = "pending"

\* C3 as claimed: what is emitted under auto_predict_f0 does not depend on
\* the transpose slider: every configuration emitted with auto_predict_f0
\* carries the same transpose.
C3_TransposeIgnored == Cardinality(emittedAuto) <= 1

\* C3 as amended: a step that emits a new transpose under auto_predict_f0
\* emits the slider's value as it stands, and leaves the slider disabled.
C3_SliderEmittedAndDisabled ==
    [][emittedAuto' # emittedAuto =>
          /\ emittedAuto' = emittedAuto \cup {slider'}
          /\ transposeDisabled']_vars

\* A nonzero transpose was emitted under auto_predict_f0, and the slider is
\* disabled.
C3_Witness == 12 \in emittedAuto /\ transposeDisabled

\* C4 as claimed: while the loop runs, a realtime task that raised has been
\* surfaced by the poll or is still the handle the poll will read.
C4_ErrorsSurfaced ==
    \A i \in TaskIds :
        (pc = "loop" /\ IsRealtime(i) /\ tasks[i].st = "failed")
            => (i \in reported \/ future = i)

\* C5 as claimed: no realtime task is scheduled with a configuration that
\* is not valid.
C5_InvalidConfigNeverStarts ==
    \A i \in TaskIds : IsRealtime(i) => tasks[i].cfg = "ok"

\* C6: the poll never logs an error for, nor reads the result of, a
\* cancelled task.
C6_CancelNotReported == \A i \in reported : tasks[i].st # "cancelled"

\* A session was cancelled and the loop (with its poll) went on.
C6_Witness ==
    \E i \in TaskIds :
        /\ IsRealtime(i) /\ tasks[i].st = "cancelled"
        /\ pc = "loop" /\ future = 0
        /\ reported # {}

\* C7 as claimed: a chunk that is in flight when the session is cancelled
\* runs to completion: the worker of a cancelled session does not stop
\* inside a chunk.
C7_CooperativeCancel ==
    [][\A i \in TaskIds :
          (tasks[i].st = "cancelled" /\ tasks[i].proc = "chunk")
              => tasks'[i].proc # "none"]_vars

\* The state of session i in the terms of the streaming controller: Idle
\* before it is scheduled and after it is over; Starting while it waits in
\* the pool or loads; Running once the devices are open; Stopping while it
\* is cancelled and its worker is still alive; Error from the worker's
\* exception until the handle lets go of it.
SessState(i) ==
    IF i \notin TaskIds \/ ~IsRealtime(i) THEN "Idle"
    ELSE IF tasks[i].st = "pending" THEN "Starting"
    ELSE IF tasks[i].st = "running"
         THEN (IF tasks[i].proc = "loading" THEN "Starting" ELSE "Running")
    ELSE IF tasks[i].st = "cancelled"
         THEN (IF OnWorker(i) THEN "Stopping" ELSE "Idle")
    ELSE IF tasks[i].st = "failed" /\ future = i THEN "Error"
    ELSE "Idle"

C8_Listed ==
    {<<"Idle", "Starting">>, <<"Starting", "Running">>,
     <<"Running", "Stopping">>, <<"Stopping", "Idle">>,
     <<"Running", "Error">>, <<"Error", "Idle">>}

\* A session that is still starting is cancelled (before or after a worker
\* took it) or fails.
C8_FromStarting ==
    {<<"Starting", "Idle">>, <<"Starting", "Stopping">>,
     <<"Starting", "Error">>}

C8_Moves(allowed) ==
    \A i \in 1..MaxTasks :
        SessState(i)' = SessState(i) \/ <<SessState(i), SessState(i)'>> \in allowed

C8_NoStartWhileRunning ==
    \A i, j \in TaskIds :
        (i # j /\ SessState(i) = "Starting") => SessState(j) # "Running"

\* C8 as claimed: every session moves only along Idle -> Starting ->
\* Running -> Stopping -> Idle and Running -> Error -> Idle, and none is
\* Starting while another is Running.
C8_OnlyListedTransitions ==
    [][C8_Moves(C8_Listed)]_vars /\ []C8_NoStartWhileRunning

\* C8 as amended: the listed transitions and, from Starting, the three
\* above; none is Starting while another is Running.
C8_TransitionsWithStarting ==
    [][C8_Moves(C8_Listed \cup C8_FromStarting)]_vars
        /\ []C8_NoStartWhileRunning

\* A restart of a running session: the old one Stopping, the new one
\* Starting.
C8_Witness ==
    \E i, j \in TaskIds :
        SessState(i) = "Stopping" /\ SessState(j) = "Starting"

\* C9: no session outlives its handle; the worker of a cancelled session is
\* eventually stopped; after the window is closed main returns, and no
\* handle is left; stop_vc leaves the handle empty, and with no session it
\* changes neither the tasks nor the handle.
C9_TornDown ==
    /\ [](\A i \in TaskIds : (pc = "loop" /\ Active(i)) => future = i)
    /\ \A i \in 1..MaxTasks :
          [](i \in TaskIds /\ tasks[i].st = "cancelled"
               => <>(i \in TaskIds /\ ~OnWorker(i)))
    /\ [](pc = "joining" => <>(pc = "exited" /\ future = 0))
    /\ [][(\E auto \in BOOLEAN, tr \in Transposes : StopVc(auto, tr)) =>
            /\ future' = 0
            /\ future = 0 => UNCHANGED <<tasks, reported, pc>>]_vars

\* A running session was stopped and its worker is gone.
C9_Witness ==
    \E i \in TaskIds :
        /\ IsRealtime(i) /\ tasks[i].st = "cancelled" /\ ~OnWorker(i)
        /\ future = 0

\* C10 as claimed: while a session occupies the worker, at most one task
\* waits in the pool (a newer one takes the place of the older one).
C10_QueueBounded ==
    (\E i \in TaskIds : IsRealtime(i) /\ OnWorker(i))
        => Cardinality({i \in TaskIds : tasks[i].st = "pending"}) <= 1

\* ---------------------------------------------------------------------
\* main before the loop (gui.py:86-105, 444, 500): the HuBERT model is
\* ensured, then the window and the pool are created.  While main is there
\* pc = "startup".
\* ---------------------------------------------------------------------

\* main is entered: nothing tried, no window, no pool.
NotStarted == [tried |-> <<>>, window |-> FALSE, pool |-> FALSE]

\* A flat sequence of calls: an attempt is made whatever the earlier ones did.
NeedsAttemptAlways(tried) == TRUE

\* The try/except nesting: an attempt is inside the except clause of the one
\* before it, so it is made only when every earlier attempt raised.
NeedsAttempt(tried) == \A i \in 1..Len(tried) : ~tried[i].ok

\* One call of ensure_hubert_model, which returns (ok) or raises.  The third
\* attempt's except clause returns from main (gui.py:104).
EnsureHubert(ok) ==
    /\ pc = "startup"
    /\ ~startup.window
    /\ Len(startup.tried) < Len(Bars)
    /\ NeedsAttempt(startup.tried)
    /\ startup' =
          [startup EXCEPT
              !.tried = Append(@, [bar |-> Bars[Len(@) + 1], ok |-> ok])]
    /\ pc' = IF ~ok /\ Len(startup.tried) + 1 = Len(Bars)
             THEN "exited" ELSE "startup"
    /\ UNCHANGED <<crashed, future, tasks, transposeDisabled, slider,
                   emittedAuto, reported, call>>

\* gui.py:105-499: past the try statement the layout is built and the
\* window created.
CreateWindow ==
    /\ pc = "startup"
    /\ \E i \in 1..Len(startup.tried) : startup.tried[i].ok
    /\ ~startup.window
    /\ startup' = [startup EXCEPT !.window = TRUE]
    /\ UNCHANGED <<guiVars, call>>

\* gui.py:500-501: the pool is created and the loop entered.
CreatePool ==
    /\ pc = "startup"
    /\ startup.window
    /\ startup' = [startup EXCEPT !.pool = TRUE]
    /\ pc' = "loop"
    /\ UNCHANGED <<crashed, future, tasks, transposeDisabled, slider,
                   emittedAuto, reported, call>>

StartupInit ==
    /\ pc = "startup"
    /\ crashed = FALSE
    /\ future = 0
    /\ tasks = <<>>
    /\ transposeDisabled = FALSE
    /\ slider = 0
    /\ emittedAuto = {}
    /\ reported = {}
    /\ startup = NotStarted
    /\ call = NoCall

StartupNext ==
    \/ \E ok \in BOOLEAN : EnsureHubert(ok)
    \/ CreateWindow
    \/ CreatePool
    \/ SessionNext

\* main from its first line, with the steps that nothing can hold up.
StartupSpec ==
    /\ StartupInit
    /\ [][StartupNext]_vars
    /\ WF_vars(CreateWindow)
    /\ WF_vars(CreatePool)

\* C17: the model is ensured by at most three attempts, in the order
\* tqdm_tk, default, disabled, an attempt being made only when every earlier
\* one raised; when all three raised main has returned with no window and no
\* pool; when one succeeded the window is created.
C17_HubertAttempts ==
    /\ [](/\ Len(startup.tried) <= 3
          /\ \A i \in 1..Len(startup.tried) :
                /\ startup.tried[i].bar = <<"tqdm_tk", "default", "disabled">>[i]
                /\ \A j \in 1..(i - 1) : ~startup.tried[j].ok)
    /\ []((Len(startup.tried) = 3 /\ \A i \in 1..3 : ~startup.tried[i].ok)
            => (pc = "exited" /\ ~startup.window /\ ~startup.pool
                /\ tasks = <<>>))
    /\ [](startup.window =>
            \E i \in 1..Len(startup.tried) : startup.tried[i].ok)
    /\ ((\E i \in 1..Len(startup.tried) : startup.tried[i].ok)
            ~> startup.window)

C17_Witness ==
    /\ Len(startup.tried) = 3
    /\ ~startup.tried[1].ok /\ ~startup.tried[2].ok /\ startup.tried[3].ok
    /\ startup.window
    /\ pc = "loop"

\* ---------------------------------------------------------------------
\* The functions outside the loop.  Each is checked under a specification of
\* its own, which draws the arguments of one call and leaves main where it
\* is.
\* ---------------------------------------------------------------------

MainIdle ==
    /\ GuiInit
    /\ slider = 0
    /\ startup = Started

\* ---- load_presets (gui.py:29-36) ----
\* A dict is the sequence of its items in insertion order, the keys distinct.

MaxPresets == 2
PresetNames == {"a", "b", "c"}
PresetValues == {1, 2}

Keys(d) == {d[i].k : i \in 1..Len(d)}
Names(d) == [i \in 1..Len(d) |-> d[i].k]
Get(d, k) == d[CHOOSE i \in 1..Len(d) : d[i].k = k].v

Dicts ==
    {d \in UNION {[1..n -> [k : PresetNames, v : PresetValues]] :
                    n \in 0..MaxPresets} :
        \A i, j \in 1..Len(d) : d[i].k = d[j].k => i = j}

\* d[k] = v: a key the dict has keeps its place, a new key goes last.
SetItem(d, k, v) ==
    IF k \in Keys(d)
    THEN [i \in 1..Len(d) |-> IF d[i].k = k THEN [k |-> k, v |-> v] ELSE d[i]]
    ELSE Append(d, [k |-> k, v |-> v])

\* {**d, **e}: the items of e are set in e's order.
RECURSIVE Unpack(_, _)
Unpack(d, e) ==
    IF e = <<>> THEN d ELSE Unpack(SetItem(d, Head(e).k, Head(e).v), Tail(e))

\* The merge without the second unpacking of the defaults.
load_presets_users_last(defaults, users) ==
    Unpack(Unpack(<<>>, defaults), users)

\* gui.py:36: {**defaults, **users, **defaults}
load_presets(defaults, users) ==
    Unpack(Unpack(Unpack(<<>>, defaults), users), defaults)

PresetsInit ==
    /\ MainIdle
    /\ call \in [op : {"load_presets"}, defaults : Dicts, users : Dicts,
                 result : {<<>>}, returned : {FALSE}]

LoadPresets ==
    /\ call.op = "load_presets"
    /\ ~call.returned
    /\ call' = [call EXCEPT !.result = load_presets(call.defaults, call.users),
                            !.returned = TRUE]
    /\ UNCHANGED <<guiVars, startup>>

PresetsNext == LoadPresets

PresetsSpec == PresetsInit /\ [][PresetsNext]_vars

\* C12: in the merged presets a name the defaults have carries the default's
\* value, a name only the user has carries the user's value, and the names
\* come in the order: the defaults' names, then the user-only names.
C12_DefaultsFirst ==
    (call.op = "load_presets" /\ call.returned) =>
        LET d == call.defaults
            u == call.users
            r == call.result
            UserOnly(n) == n \notin Keys(d)
        IN  /\ \A n \in Keys(d) : Get(r, n) = Get(d, n)
            /\ \A n \in Keys(u) \ Keys(d) : Get(r, n) = Get(u, n)
            /\ Names(r) = Names(d) \o SelectSeq(Names(u), UserOnly)

C12_Witness ==
    /\ call.op = "load_presets"
    /\ call.returned
    /\ \E n \in Keys(call.defaults) \cap Keys(call.users) :
          Get(call.defaults, n) # Get(call.users, n)
    /\ Len(call.users) = 2
    /\ call.users[1].k \notin Keys(call.defaults)
    /\ Len(call.result) = 2

\* ---- clean_checkpoints (utils.py:336-363) ----
\* A checkpoint file <fam>_<step>.pth is the record of its family and step.

MaxStep == 3
MaxKeep == 3
Families == {"G", "D"}
Ckpts == [fam : Families, step : 0..MaxStep]

\* os.path.getmtime: the files were written in the order of their steps, or
\* the directory was copied back to front.
MTimeOrders == {"by_step", "reversed"}
getmtime(f, order) == IF order = "by_step" THEN f.step ELSE MaxStep - f.step

\* utils.py:350-352: name_key, time_key, sort_key
sort_key(f, order, sort_by_time) ==
    IF sort_by_time THEN getmtime(f, order) ELSE f.step

\* sorted(S, key): ascending; the keys of a family's files are distinct.
RECURSIVE sorted(_, _, _)
sorted(S, order, sort_by_time) ==
    IF S = {} THEN <<>>
    ELSE LET least == CHOOSE f \in S : \A g \in S :
                         sort_key(f, order, sort_by_time)
                             <= sort_key(g, order, sort_by_time)
         IN  <<least>> \o sorted(S \ {least}, order, sort_by_time)

\* utils.py:353-356: the family's files, <fam>_0.pth left out.
x_sorted(files, fam, order, sort_by_time) ==
    sorted({f \in files : f.fam = fam /\ f.step # 0}, order, sort_by_time)

\* s[:stop] of Python: a negative stop counts from the end, and -0 is 0.
PySliceTo(s, stop) ==
    LET n == Len(s)
        e == IF stop < 0
             THEN (IF stop + n < 0 THEN 0 ELSE stop + n)
             ELSE (IF stop > n THEN n ELSE stop)
    IN  SubSeq(s, 1, e)

Range(s) == {s[i] : i \in 1..Len(s)}

\* utils.py:357-360: to_del
to_del(files, n_ckpts_to_keep, order, sort_by_time) ==
    Range(PySliceTo(x_sorted(files, "G", order, sort_by_time),
                    0 - n_ckpts_to_keep))
    \cup Range(PySliceTo(x_sorted(files, "D", order, sort_by_time),
                         0 - n_ckpts_to_keep))

CleanInit ==
    /\ MainIdle
    /\ \E files \in SUBSET Ckpts, order \in MTimeOrders, n \in 0..MaxKeep,
          by_time \in BOOLEAN :
          call = [op |-> "clean_checkpoints", before |-> files,
                  files |-> files, order |-> order, n_ckpts_to_keep |-> n,
                  sort_by_time |-> by_time, returned |-> FALSE]

\* utils.py:361-363: every file of to_del is removed.
CleanCheckpoints ==
    /\ call.op = "clean_checkpoints"
    /\ ~call.returned
    /\ call' = [call EXCEPT
                   !.files = @ \ to_del(@, call.n_ckpts_to_keep, call.order,
                                        call.sort_by_time),
                   !.returned = TRUE]
    /\ UNCHANGED <<guiVars, startup>>

CleanNext == CleanCheckpoints

CleanSpec == CleanInit /\ [][CleanNext]_vars

\* C13: after clean_checkpoints each family keeps exactly its
\* n_ckpts_to_keep newest checkpoints by the sort key (all of them when it
\* has fewer) and has lost every older one, for every n_ckpts_to_keep >= 0;
\* G_0.pth and D_0.pth are kept and not counted.
C13_KeepsNewest ==
    (call.op = "clean_checkpoints" /\ call.returned) =>
        \A fam \in Families :
            LET had == {f \in call.before : f.fam = fam /\ f.step # 0}
                has == {f \in call.files : f.fam = fam /\ f.step # 0}
                key(f) == sort_key(f, call.order, call.sort_by_time)
            IN  /\ has \subseteq had
                /\ Cardinality(has) =
                      (IF Cardinality(had) < call.n_ckpts_to_keep
                       THEN Cardinality(had) ELSE call.n_ckpts_to_keep)
                /\ \A f \in has, g \in had \ has : key(g) < key(f)
                /\ \A f \in call.before :
                      (f.fam = fam /\ f.step = 0) => f \in call.files

\* ---- preprocess_resample (preprocess_resample.py:26-35, 70-84) ----
\* A path relative to input_dir or output_dir is the record of its
\* directories (the speaker first), the stem of its name and its suffix.  A
\* stem is its text split at the "_<number>" endings, so that "a_1" is
\* <<"a", 1>> whether a file is named so or the number was appended.

MaxFiles == 3
RelDirs == {<<>>, <<"s">>, <<"s", "d">>}
Stems == {<<"a">>, <<"a", 1>>}
Suffixes == {"wav", "mp3"}
InputFiles == [parts : RelDirs, stem : Stems, ext : Suffixes]

\* input_dir.rglob("*.*"): the files in the order the walk yields them.
Walks ==
    {w \in UNION {[1..n -> InputFiles] : n \in 0..MaxFiles} :
        \A i, j \in 1..Len(w) : w[i] = w[j] => i = j}

\* preprocess_resample.py:32: path.parent / f"{path.stem}_{i}{path.suffix}"
Numbered(path, i) == [path EXCEPT !.stem = Append(@, i)]

\* preprocess_resample.py:30-35: the while loop from i.
RECURSIVE FirstFree(_, _, _)
FirstFree(path, existing_paths, i) ==
    IF Numbered(path, i) \notin Range(existing_paths)
    THEN Numbered(path, i)
    ELSE FirstFree(path, existing_paths, i + 1)

\* The path returned as it is, free or not.
get_unique_filename_same(path, existing_paths) == path

\* preprocess_resample.py:26-35
get_unique_filename(path, existing_paths) ==
    IF path \notin Range(existing_paths)
    THEN path
    ELSE FirstFree(path, existing_paths, 1)

\* preprocess_resample.py:76-78: output_dir / speaker_name / file_name
out_path(in_path) ==
    [parts |-> <<in_path.parts[1]>>, stem |-> in_path.stem, ext |-> "wav"]

ResampleInit ==
    /\ MainIdle
    /\ \E w \in Walks :
          call = [op |-> "preprocess_resample", todo |-> w,
                  in_paths |-> <<>>, out_paths |-> <<>>]

\* preprocess_resample.py:72-82: one iteration of the for loop.
PlanFile ==
    /\ call.op = "preprocess_resample"
    /\ call.todo # <<>>
    /\ LET in_path == Head(call.todo)
       IN  call' =
             IF Len(in_path.parts) + 1 < 2
             THEN [call EXCEPT !.todo = Tail(@)]
             ELSE [call EXCEPT
                      !.todo = Tail(@),
                      !.in_paths = Append(@, in_path),
                      !.out_paths =
                          Append(@, get_unique_filename(out_path(in_path),
                                                        call.out_paths))]
    /\ UNCHANGED <<guiVars, startup>>

ResampleNext == PlanFile

ResampleSpec == ResampleInit /\ [][ResampleNext]_vars

\* C14: _get_unique_filename returns a path that is not among the existing
\* ones: the path itself when it is free, else the path numbered with the
\* least i >= 1 that is free; and the output paths planned so far are
\* pairwise distinct.
C14_UniqueOutputs ==
    call.op = "preprocess_resample" =>
        LET existing == Range(call.out_paths)
        IN  /\ \A i, j \in 1..Len(call.out_paths) :
                  call.out_paths[i] = call.out_paths[j] => i = j
            /\ Len(call.in_paths) = Len(call.out_paths)
            /\ \A f \in InputFiles :
                  f.parts # <<>> =>
                      LET p == out_path(f)
                          r == get_unique_filename(p, call.out_paths)
                      IN  /\ r \notin existing
                          /\ p \notin existing => r = p
                          /\ p \in existing =>
                                \E i \in 1..(Len(call.out_paths) + 1) :
                                    /\ r = [p EXCEPT !.stem = Append(@, i)]
                                    /\ \A j \in 1..(i - 1) :
                                          [p EXCEPT !.stem = Append(@, j)]
                                              \in existing

C14_Witness ==
    /\ call.op = "preprocess_resample"
    /\ call.todo = <<>>
    /\ Len(call.out_paths) = 3
    /\ call.out_paths[2].stem = <<"a", 1>>
    /\ call.in_paths[2].stem = <<"a", 1>>
    /\ call.out_paths[3].stem = <<"a", 2>>

\* C15: every planned input file is planned at its own relative path under
\* output_dir, the suffix replaced by .wav, whatever the depth of its
\* directory below the speaker's.
C15_StructureKept ==
    call.op = "preprocess_resample" =>
        \A i \in 1..Len(call.out_paths) :
            call.out_paths[i] =
                [parts |-> call.in_paths[i].parts,
                 stem |-> call.in_paths[i].stem, ext |-> "wav"]

\* ---- preprocess_config (preprocess_flist_config.py:17-89) ----
\* A speaker's directory is the sequence of the durations, in milliseconds,
\* of its wav files.  The glob's order has no part in what follows, so the
\* durations are taken in ascending order.

MaxSpeakers == 2
MaxWavs == 6
Durations == {200, 300}

WavDirs ==
    {w \in UNION {[1..n -> Durations] : n \in 0..MaxWavs} :
        \A i, j \in 1..Len(w) : i <= j => w[i] <= w[j]}

InputDirs == UNION {[1..n -> WavDirs] : n \in 0..MaxSpeakers}

\* preprocess_flist_config.py:42: get_duration(filename=path) < 0.3
TooShort(d) == d < 300

\* The test that lets four files pass.
TooFewBelowFour(n) == n <= 3

\* preprocess_flist_config.py:47: len(paths) <= 4
TooFew(n) == n <= 4

\* preprocess_flist_config.py:37-45: paths
paths(wavs) ==
    LET Kept(d) == ~TooShort(d)
    IN  SelectSeq(wavs, Kept)

\* The files in the order lines 55-89 write them.
Outputs == <<"train_list", "val_list", "test_list", "config">>

ConfigInit ==
    /\ MainIdle
    /\ \E dir \in InputDirs :
          call = [op |-> "preprocess_config", input_dir |-> dir,
                  todo |-> dir, train |-> 0, val |-> 0, test |-> 0,
                  raised |-> FALSE, written |-> <<>>]

\* preprocess_flist_config.py:34-53: one iteration of the loop over the
\* speakers.  The slices paths[2:-2], paths[:2], paths[-2:] are taken of a
\* list of at least five.
ScanSpeaker ==
    /\ call.op = "preprocess_config"
    /\ ~call.raised
    /\ call.todo # <<>>
    /\ LET n == Len(paths(Head(call.todo)))
       IN  call' =
             IF TooFew(n)
             THEN [call EXCEPT !.todo = Tail(@), !.raised = TRUE]
             ELSE [call EXCEPT !.todo = Tail(@),
                               !.train = @ + (n - 4),
                               !.val = @ + 2,
                               !.test = @ + 2]
    /\ UNCHANGED <<guiVars, startup>>

\* preprocess_flist_config.py:55-89: past the loop the three lists and the
\* config are written, one after the other.
WriteOutput ==
    /\ call.op = "preprocess_config"
    /\ ~call.raised
    /\ call.todo = <<>>
    /\ Len(call.written) < Len(Outputs)
    /\ call' = [call EXCEPT !.written = Append(@, Outputs[Len(@) + 1])]
    /\ UNCHANGED <<guiVars, startup>>

ConfigNext == ScanSpeaker \/ WriteOutput

ConfigSpec == ConfigInit /\ [][ConfigNext]_vars

\* C16: preprocess_config has raised exactly when the speaker it examined
\* last has fewer than five wav files of at least 0.3 s (every speaker before
\* it having five or more), and when it has raised none of the lists and no
\* config has been written.
C16_TooFewFiles ==
    call.op = "preprocess_config" =>
        LET seen == Len(call.input_dir) - Len(call.todo)
            usable(i) ==
                Cardinality({k \in 1..Len(call.input_dir[i]) :
                                call.input_dir[i][k] >= 300})
        IN  /\ call.raised <=> (seen > 0 /\ usable(seen) < 5)
            /\ \A i \in 1..(seen - 1) : usable(i) >= 5
            /\ call.raised => call.written = <<>>
            /\ call.written # <<>> =>
                  \A i \in 1..Len(call.input_dir) : usable(i) >= 5

C16_Witness ==
    /\ call.op = "preprocess_config"
    /\ call.raised
    /\ Len(call.input_dir) = 2
    /\ call.todo = <<>>
    /\ Len(call.input_dir[2]) = 6
    /\ call.input_dir[2][3] = 300
    /\ call.train > 0

\* ---- download_file (utils.py:194-213) ----
\* The response body is a number of chunks.  The target file is "absent",
\* "old" (it was there before the first call), "whole" (the renamed file
\* holds the body) or "partial" (it holds less); the temporary file is -1
\* when absent and else the number of chunks in it.

MaxChunks == 3
MaxCalls == 3

\* A loop that may end before the last chunk.
ExhaustedAnyway(written, body) == TRUE

\* utils.py:210: resp.iter_content is exhausted when every chunk of the
\* body was yielded.
Exhausted(written, body) == written = body

DownloadInit ==
    /\ MainIdle
    /\ \E body \in 1..MaxChunks, target \in {"absent", "old"},
          temp \in {-1, 0, 1} :
          call = [op |-> "download_file", body |-> body, target |-> target,
                  temp |-> temp, pc |-> "entry", requests |-> 0,
                  calls |-> 1, failures |-> 0]

\* utils.py:195-200: FileExistsError when the target is there, else the
\* temporary file of an earlier call is removed.
CheckTarget ==
    /\ call.op = "download_file"
    /\ call.pc = "entry"
    /\ call' = IF call.target # "absent"
               THEN [call EXCEPT !.pc = "raised_exists"]
               ELSE [call EXCEPT !.pc = "ready", !.temp = -1]
    /\ UNCHANGED <<guiVars, startup>>

\* utils.py:201-203: the request is sent; it raises, or the temporary file
\* is opened for writing.
Request(ok) ==
    /\ call.op = "download_file"
    /\ call.pc = "ready"
    /\ call' = IF ok
               THEN [call EXCEPT !.pc = "streaming", !.temp = 0,
                                 !.requests = @ + 1]
               ELSE [call EXCEPT !.pc = "raised_io", !.requests = @ + 1,
                                 !.failures = @ + 1]
    /\ UNCHANGED <<guiVars, startup>>

\* utils.py:210-212: one chunk is written.
WriteChunk ==
    /\ call.op = "download_file"
    /\ call.pc = "streaming"
    /\ call.temp < call.body
    /\ call' = [call EXCEPT !.temp = @ + 1]
    /\ UNCHANGED <<guiVars, startup>>

\* utils.py:210: the connection breaks and iter_content raises.
StreamFails ==
    /\ call.op = "download_file"
    /\ call.pc = "streaming"
    /\ call.temp < call.body
    /\ call' = [call EXCEPT !.pc = "raised_io", !.failures = @ + 1]
    /\ UNCHANGED <<guiVars, startup>>

\* utils.py:213: temppath.rename(filepath)
Rename ==
    /\ call.op = "download_file"
    /\ call.pc = "streaming"
    /\ Exhausted(call.temp, call.body)
    /\ call' = [call EXCEPT
                   !.pc = "returned",
                   !.target = IF call.temp = call.body
                              THEN "whole" ELSE "partial",
                   !.temp = -1]
    /\ UNCHANGED <<guiVars, startup>>

\* download_file is called again for the same path (utils.py:226, 235 call
\* it whenever the file is missing).
CallAgain ==
    /\ call.op = "download_file"
    /\ call.pc \in {"raised_exists", "raised_io", "returned"}
    /\ call.calls < MaxCalls
    /\ call' = [call EXCEPT !.pc = "entry", !.calls = @ + 1]
    /\ UNCHANGED <<guiVars, startup>>

DownloadNext ==
    \/ CheckTarget
    \/ \E ok \in BOOLEAN : Request(ok)
    \/ WriteChunk
    \/ StreamFails
    \/ Rename
    \/ CallAgain

DownloadSpec == DownloadInit /\ [][DownloadNext]_vars

\* C18: called with the target present, download_file raises FileExistsError
\* with no request sent and no file touched; called with it absent, it goes
\* on (a leftover temporary file is no obstacle), the target appears only by
\* the rename that follows the last chunk of the body, and a call that
\* failed has left no target.
C18_AtomicDownload ==
    /\ [][(call.op = "download_file" /\ call.pc = "entry"
            /\ call.target # "absent")
          => (/\ call'.pc = "raised_exists"
              /\ call'.requests = call.requests
              /\ call'.target = call.target
              /\ call'.temp = call.temp)]_vars
    /\ [][(call.op = "download_file" /\ call.pc = "entry"
            /\ call.target = "absent")
          => call'.pc = "ready"]_vars
    /\ [][(call.op = "download_file" /\ call'.target # call.target)
          => (/\ call.target = "absent"
              /\ call.temp = call.body
              /\ call'.target = "whole"
              /\ call'.pc = "returned")]_vars
    /\ []((call.op = "download_file" /\ call.pc = "raised_io")
          => call.target = "absent")

C18_Witness ==
    /\ call.op = "download_file"
    /\ call.pc = "raised_exists"
    /\ call.calls = 3
    /\ call.failures = 1
    /\ call.requests = 2
    /\ call.target = "whole"
    /\ call.body = 3

\* ---- f0_to_coarse (utils.py:19-23, 177-191) ----
\* Fixed point: a logarithm is in units of 1/10000, a mel value in tenths, a
\* bin value in hundredths.  f0 is a multiple of 10 Hz.

f0_bin == 256
f0_max == 1100
f0_min == 50

\* np.log(1 + f0 / 700) for f0 = 0, 10, 20, ..., times 10000 and rounded.
LogTable ==
    <<
      0, 142, 282, 420, 556, 690, 822, 953, 1082, 1210,
      1335, 1460, 1582, 1703, 1823, 1942, 2059, 2174, 2288, 2401,
      2513, 2624, 2733, 2841, 2948, 3054, 3159, 3262, 3365, 3466,
      3567, 3666, 3765, 3862, 3959, 4055, 4149, 4243, 4336, 4429,
      4520, 4610, 4700, 4789, 4877, 4964, 5051, 5137, 5222, 5306,
      5390, 5473, 5555, 5637, 5718, 5798, 5878, 5957, 6035, 6113,
      6190, 6267, 6343, 6419, 6493, 6568, 6642, 6715, 6788, 6860,
      6931, 7003, 7073, 7143, 7213, 7282, 7351, 7419, 7487, 7555,
      7621, 7688, 7754, 7819, 7885, 7949, 8014, 8078, 8141, 8204,
      8267, 8329, 8391, 8453, 8514, 8575, 8635, 8695, 8755, 8814,
      8873, 8932, 8990, 9048, 9106, 9163, 9220, 9277, 9333, 9389,
      9445, 9500, 9555, 9610, 9664, 9719, 9773, 9826, 9879, 9933,
      9985, 10038, 10090, 10142, 10194, 10245, 10296, 10347, 10398, 10448,
      10498, 10548, 10598, 10647, 10696, 10745, 10794, 10842, 10890, 10938,
      10986
    >>

F0s == {10 * (i - 1) : i \in 1..Len(LogTable)}

\* utils.py:179: 1127 * np.log(1 + f0 / 700), in tenths of a mel.
mel(f0) == (1127 * LogTable[(f0 \div 10) + 1]) \div 1000

f0_mel_min == mel(f0_min)
f0_mel_max == mel(f0_max)

\* utils.py:180-182: the positive mel values are mapped onto the bins, the
\* others are left as they are; the result is in hundredths.
scaled(m) ==
    IF m > 0
    THEN ((m - f0_mel_min) * (f0_bin - 2) * 100)
             \div (f0_mel_max - f0_mel_min) + 100
    ELSE m * 10

\* No lower clamp: values below 1 are left as they are.
clamp_low_none(x) == x

\* utils.py:184: f0_mel[f0_mel <= 1] = 1
clamp_low(x) == IF x <= 100 THEN 100 ELSE x

\* utils.py:185: f0_mel[f0_mel > f0_bin - 1] = f0_bin - 1
clamp_high(x) == IF x > (f0_bin - 1) * 100 THEN (f0_bin - 1) * 100 ELSE x

\* np.rint: to the nearest integer, a half to the even one.
rint(x) ==
    LET q == x \div 100
        r == x % 100
    IN  IF r < 50 THEN q
        ELSE IF r > 50 THEN q + 1
        ELSE IF q % 2 = 0 THEN q ELSE q + 1

\* utils.py:186: (f0_mel + 0.5).long() for a tensor, np.rint(f0_mel) else;
\* long() cuts the fraction off.
to_int(x, is_torch) ==
    IF is_torch
    THEN (IF x + 50 >= 0
          THEN (x + 50) \div 100
          ELSE 0 - ((0 - (x + 50)) \div 100))
    ELSE rint(x)

\* utils.py:177-186 for one element of the array.
f0_to_coarse(f0, is_torch) ==
    to_int(clamp_high(clamp_low(scaled(mel(f0)))), is_torch)

CoarseInit ==
    /\ MainIdle
    /\ \E a, b \in F0s, is_torch \in BOOLEAN :
          call = [op |-> "f0_to_coarse", f0 |-> <<a, b>>,
                  is_torch |-> is_torch, f0_coarse |-> <<>>,
                  pc |-> "entry"]

\* utils.py:177-191: the array is converted, the assertion passes or fails.
F0ToCoarse ==
    /\ call.op = "f0_to_coarse"
    /\ call.pc = "entry"
    /\ LET out == [i \in 1..2 |-> f0_to_coarse(call.f0[i], call.is_torch)]
       IN  call' =
             [call EXCEPT
                 !.f0_coarse = out,
                 !.pc = IF \A i \in 1..2 : out[i] <= 255 /\ out[i] >= 1
                        THEN "returned" ELSE "assertion_error"]
    /\ UNCHANGED <<guiVars, startup>>

CoarseNext == F0ToCoarse

CoarseSpec == CoarseInit /\ [][CoarseNext]_vars

\* C19: f0_to_coarse never fails its assertion: every f0 >= 0 gets a bin in
\* 1..255, f0 = 0 gets bin 1, an f0 of f0_max or more gets bin 255, and a
\* larger f0 never gets a smaller bin.
C19_CoarseBins ==
    (call.op = "f0_to_coarse" /\ call.pc # "entry") =>
        /\ call.pc = "returned"
        /\ \A i \in 1..2 :
              /\ call.f0_coarse[i] \in 1..255
              /\ call.f0[i] = 0 => call.f0_coarse[i] = 1
              /\ call.f0[i] >= 1100 => call.f0_coarse[i] = 255
        /\ call.f0[1] <= call.f0[2] => call.f0_coarse[1] <= call.f0_coarse[2]

C19_Witness ==
    /\ call.op = "f0_to_coarse"
    /\ call.pc = "returned"
    /\ call.f0 = <<40, 440>>
    /\ call.f0_coarse[1] = 1
    /\ call.f0_coarse[2] \in 100..200

\* ---- the device of an inference (gui.py:411-430, 488-492, 571-579, 633) ----
\* The machine has CUDA, MPS, both or neither; use_gpu is the checkbox; the
\* devices handed to infer and to realtime are collected with the value of
\* the checkbox they were computed from.

\* gui.py:571-579: the device the infer branch passes.
infer_device(use_gpu, cuda, mps) ==
    IF ~use_gpu THEN "cpu"
    ELSE IF cuda THEN "cuda"
    ELSE IF mps THEN "mps"
    ELSE "cpu"

\* gui.py:633: the device the start_vc branch passes.
realtime_device(use_gpu, cuda, mps) == IF use_gpu THEN "cuda" ELSE "cpu"

\* gui.py:411-430: the checkbox is ticked when a GPU is there and disabled
\* when none is.
DeviceInit ==
    /\ MainIdle
    /\ \E cuda, mps \in BOOLEAN :
          call = [op |-> "device", cuda |-> cuda, mps |-> mps,
                  use_gpu |-> (cuda \/ mps), disabled |-> ~(cuda \/ mps),
                  infer |-> {}, realtime |-> {}]

\* The user clicks the checkbox.
ToggleGpu ==
    /\ call.op = "device"
    /\ ~call.disabled
    /\ call' = [call EXCEPT !.use_gpu = ~@]
    /\ UNCHANGED <<guiVars, startup>>

\* gui.py:488-492: a preset is applied; use_gpu is one of the preset keys
\* and the widget is updated whether it is disabled or not.
ApplyPreset(value) ==
    /\ call.op = "device"
    /\ call' = [call EXCEPT !.use_gpu = value]
    /\ UNCHANGED <<guiVars, startup>>

\* gui.py:539-584: the infer branch computes its device.
InferDevice ==
    /\ call.op = "device"
    /\ call' = [call EXCEPT
                   !.infer = @ \cup
                       {[use_gpu |-> call.use_gpu,
                         device |-> infer_device(call.use_gpu, call.cuda,
                                                 call.mps)]}]
    /\ UNCHANGED <<guiVars, startup>>

\* gui.py:588-636: the start_vc branch computes its device.
RealtimeDevice ==
    /\ call.op = "device"
    /\ call' = [call EXCEPT
                   !.realtime = @ \cup
                       {[use_gpu |-> call.use_gpu,
                         device |-> realtime_device(call.use_gpu, call.cuda,
                                                    call.mps)]}]
    /\ UNCHANGED <<guiVars, startup>>

DeviceNext ==
    \/ ToggleGpu
    \/ \E value \in BOOLEAN : ApplyPreset(value)
    \/ InferDevice
    \/ RealtimeDevice

DeviceSpec == DeviceInit /\ [][DeviceNext]_vars

\* C20: the device handed to realtime is "cpu" when use_gpu is off, else
\* "cuda" when CUDA is there, else "mps" when MPS is there, else "cpu", like
\* the device handed to infer; it is always a device the machine has.
C20_SameDeviceRule ==
    call.op = "device" =>
        \A e \in call.realtime :
            /\ e.device =
                  (IF ~e.use_gpu THEN "cpu"
                   ELSE IF call.cuda THEN "cuda"
                   ELSE IF call.mps THEN "mps"
                   ELSE "cpu")
            /\ e.device = "cuda" => call.cuda
            /\ e.device = "mps" => call.mps

\* ---- the Crossfade Mixer (spec 4.3) ----
\* The mixer that inference_main.realtime runs on every inferred chunk,
\* after the description of its contract: mix(new_chunk, buffer) blends
\* the head of the new chunk with the buffered tail of the previous one and
\* buffers the new tail.  The fade is the linear one.  Gains and output
\* samples are exact fractions, written as their numerators over Unity.

XfadeLen == 2
MaxMixes == 2
ChunkLen == XfadeLen + 1
Samples == {0, 1}
Chunks == [1..ChunkLen -> Samples]

\* A ramp that is not linear.
ramp_square(j) == j * j

\* The fade curve at j steps into the crossfade, j in 0..XfadeLen.
ramp(j) == j

\* The full gain.
Unity == ramp(XfadeLen)

\* The gain of the new chunk's head and of the buffered tail at the k-th
\* sample of the crossfade, k in 1..XfadeLen: the tail fades out along the
\* mirrored ramp.
fade_in(k) == ramp(k - 1)
fade_out(k) == ramp(XfadeLen - (k - 1))

\* mix: the output chunk and the gains applied.  An empty buffer means no
\* fade.
mix_output(new_chunk, buffer) ==
    IF buffer = <<>>
    THEN [i \in 1..ChunkLen |-> Unity * new_chunk[i]]
    ELSE [i \in 1..ChunkLen |->
            IF i <= XfadeLen
            THEN fade_out(i) * buffer[i] + fade_in(i) * new_chunk[i]
            ELSE Unity * new_chunk[i]]

mix_gains(buffer) ==
    IF buffer = <<>>
    THEN <<>>
    ELSE [k \in 1..XfadeLen |->
            [fade_in |-> fade_in(k), fade_out |-> fade_out(k)]]

\* The tail the mixer keeps for the next cycle.
tail(chunk) == SubSeq(chunk, ChunkLen - XfadeLen + 1, ChunkLen)

MixInit ==
    /\ MainIdle
    /\ \E input \in UNION {[1..n -> Chunks] : n \in 0..MaxMixes} :
          call = [op |-> "mix", input |-> input, mixed |-> 0,
                  buffer |-> <<>>, faded |-> <<>>, output |-> <<>>,
                  gains |-> <<>>]

\* One cycle of the mixer on the next chunk of the session.
Mix ==
    /\ call.op = "mix"
    /\ call.mixed < Len(call.input)
    /\ LET new_chunk == call.input[call.mixed + 1]
       IN  call' = [call EXCEPT
                       !.mixed = @ + 1,
                       !.faded = call.buffer,
                       !.output = mix_output(new_chunk, call.buffer),
                       !.gains = mix_gains(call.buffer),
                       !.buffer = tail(new_chunk)]
    /\ UNCHANGED <<guiVars, startup>>

MixNext == Mix

MixSpec == MixInit /\ [][MixNext]_vars

====
